---- MODULE Spec2Model ----
(***************************************************************************)
(* Model of the NEAR task-list contract (contract/src/lib.rs).             *)
(*                                                                         *)
(* The contract keeps two persistent maps:                                 *)
(*   tasks            : TaskId    -> Task                                  *)
(*   tasks_by_account : AccountId -> Vec<TaskId>                           *)
(* and exposes get_tasks, insert_task and update_task.  Every call runs    *)
(* alone and to completion (the host serialises calls), so each call is    *)
(* one action.  Strings are TLA+ strings; format!("{}.{}", a, b) is        *)
(* string concatenation.  SpecWrites is the same contract with insert_task *)
(* taken one map write at a time and readers admitted in between.          *)
(***************************************************************************)
EXTENDS Integers, Sequences, FiniteSets, TLC

\* Most insert_task calls one account makes in the model (insert_task guard).
MaxTasks == 2

\* Caller identities (env::predecessor_account_id()).  "alice.near" is a
\* sub-account name: account ids may contain the separator '.'.
Owners == {"alice", "alice.near"}

\* Task names a caller may pass (arbitrary strings, '.' included).
Names == {"task_a", "near.task_a"}

\* Status strings a caller may pass to update_task (free-form).
Statuses == {"TODO", "DONE"}

VARIABLES
    tasks_by_account,   \* LookupMap<AccountId, Vec<TaskId>>: function on the present keys
    tasks,              \* LookupMap<TaskId, Task>: function on the present keys
    call,               \* the most recent call: method, caller and arguments
    ret,                \* what the most recent call returned
    logs,               \* log lines emitted by the most recent call
    in_flight,          \* the insert_task call that has made its first write only: <<>> or one record
    created,            \* history: per account, the names it passed to insert_task, in order
    written_by,         \* history: per stored key, the caller of the call that wrote it
    last_on             \* history: per (account, name), that account's last mutating call on that name

vars == <<tasks_by_account, tasks, call, ret, logs, in_flight, created, written_by, last_on>>

Pairs == Owners \X Names

Range(s) == {s[i] : i \in 1..Len(s)}

----------------------------------------------------------------------------
(* Data and helpers *)

\* struct Task { id, task_name, task_status }
Task(id, task_name, task_status) ==
    [id |-> id, task_name |-> task_name, task_status |-> task_status]

\* Variant: the separator is left out of the format string.
task_id_no_separator(owner, task_name) == owner \o task_name

\* format!("{}.{}", owner, task_name)
task_id(owner, task_name) == owner \o "." \o task_name

\* LookupMap::insert: unconditional upsert of one key
MapInsert(m, k, v) == [x \in (DOMAIN m) \cup {k} |-> IF x = k THEN v ELSE m[x]]

\* Variant: the existing list is not read back; the list always starts empty.
new_task_lists_fresh(owner) == <<>>

\* match self.tasks_by_account.get(&owner) { Some(tasks) => tasks.clone(), _ => Vec::new() }
new_task_lists(owner) ==
    IF owner \in DOMAIN tasks_by_account THEN tasks_by_account[owner] ELSE <<>>

\* Variant: the resolved tasks come back newest first.
get_tasks_ret_reversed(owner) ==
    IF owner \notin DOMAIN tasks_by_account
    THEN [kind |-> "ok", val |-> <<>>]
    ELSE IF \E i \in 1..Len(tasks_by_account[owner]) :
                tasks_by_account[owner][i] \notin DOMAIN tasks
         THEN [kind |-> "panic", val |-> <<>>]
         ELSE [kind |-> "ok",
               val  |-> [i \in 1..Len(tasks_by_account[owner]) |->
                            tasks[tasks_by_account[owner]
                                    [Len(tasks_by_account[owner]) + 1 - i]]]]

\* get_tasks' value for a caller: the owner's identifiers resolved through
\* tasks in index order; unwrap() on an absent record panics.
get_tasks_ret(owner) ==
    IF owner \notin DOMAIN tasks_by_account
    THEN [kind |-> "ok", val |-> <<>>]
    ELSE IF \E i \in 1..Len(tasks_by_account[owner]) :
                tasks_by_account[owner][i] \notin DOMAIN tasks
         THEN [kind |-> "panic", val |-> <<>>]
         ELSE [kind |-> "ok",
               val  |-> [i \in 1..Len(tasks_by_account[owner]) |->
                            tasks[tasks_by_account[owner][i]]]]

\* Methods returning nothing return ().
Unit == [kind |-> "unit", val |-> <<>>]

----------------------------------------------------------------------------
(* Contract::default() *)

Init ==
    /\ tasks_by_account = <<>>
    /\ tasks = <<>>
    /\ call = [op |-> "default", caller |-> "", task_name |-> "", task_status |-> ""]
    /\ ret = Unit
    /\ logs = <<>>
    /\ in_flight = <<>>
    /\ created = [o \in Owners |-> <<>>]
    /\ written_by = <<>>
    /\ last_on = [p \in Pairs |-> [op |-> "none", task_status |-> ""]]

----------------------------------------------------------------------------
(* Operations *)

\* pub fn get_tasks(&self) -> Vec<Task>
get_tasks(owner) ==
    /\ call' = [op |-> "get_tasks", caller |-> owner, task_name |-> "", task_status |-> ""]
    /\ ret' = get_tasks_ret(owner)
    /\ logs' = <<>>
    /\ UNCHANGED <<tasks_by_account, tasks, in_flight, created, written_by, last_on>>

\* Variant: the record is stored under the bare task name, not the task id.
insert_task_unkeyed(owner, task_name) ==
    /\ Len(created[owner]) < MaxTasks
    /\ LET id == task_id(owner, task_name)
           task_obj == Task(id, task_name, "TODO")
       IN /\ tasks' = MapInsert(tasks, task_name, task_obj)
          /\ tasks_by_account' =
                MapInsert(tasks_by_account, owner, Append(new_task_lists(owner), id))
          /\ written_by' = MapInsert(written_by, task_name, owner)
    /\ logs' = <<"Insert new task " \o task_name>>
    /\ ret' = Unit
    /\ call' = [op |-> "insert_task", caller |-> owner,
                task_name |-> task_name, task_status |-> ""]
    /\ created' = [created EXCEPT ![owner] = Append(@, task_name)]
    /\ last_on' = [last_on EXCEPT ![<<owner, task_name>>] =
                        [op |-> "insert_task", task_status |-> "TODO"]]
    /\ UNCHANGED in_flight

\* Variant: a record already stored under the id is kept, not overwritten.
insert_task_keep_existing(owner, task_name) ==
    /\ Len(created[owner]) < MaxTasks
    /\ LET id == task_id(owner, task_name)
           task_obj == Task(id, task_name, "TODO")
       IN /\ tasks' = IF id \in DOMAIN tasks THEN tasks ELSE MapInsert(tasks, id, task_obj)
          /\ tasks_by_account' =
                MapInsert(tasks_by_account, owner, Append(new_task_lists(owner), id))
          /\ written_by' = IF id \in DOMAIN tasks THEN written_by
                                                   ELSE MapInsert(written_by, id, owner)
    /\ logs' = <<"Insert new task " \o task_name>>
    /\ ret' = Unit
    /\ call' = [op |-> "insert_task", caller |-> owner,
                task_name |-> task_name, task_status |-> ""]
    /\ created' = [created EXCEPT ![owner] = Append(@, task_name)]
    /\ last_on' = [last_on EXCEPT ![<<owner, task_name>>] =
                        [op |-> "insert_task", task_status |-> "TODO"]]
    /\ UNCHANGED in_flight

\* Variant: the id is pushed only when the caller's list does not hold it yet.
insert_task_dedup(owner, task_name) ==
    /\ Len(created[owner]) < MaxTasks
    /\ LET id == task_id(owner, task_name)
           task_obj == Task(id, task_name, "TODO")
       IN /\ tasks' = MapInsert(tasks, id, task_obj)
          /\ tasks_by_account' =
                MapInsert(tasks_by_account, owner,
                          IF id \in Range(new_task_lists(owner))
                          THEN new_task_lists(owner)
                          ELSE Append(new_task_lists(owner), id))
          /\ written_by' = MapInsert(written_by, id, owner)
    /\ logs' = <<"Insert new task " \o task_name>>
    /\ ret' = Unit
    /\ call' = [op |-> "insert_task", caller |-> owner,
                task_name |-> task_name, task_status |-> ""]
    /\ created' = [created EXCEPT ![owner] = Append(@, task_name)]
    /\ last_on' = [last_on EXCEPT ![<<owner, task_name>>] =
                        [op |-> "insert_task", task_status |-> "TODO"]]
    /\ UNCHANGED in_flight

\* pub fn insert_task(&mut self, task_name: String)
insert_task(owner, task_name) ==
    /\ Len(created[owner]) < MaxTasks
    /\ LET id == task_id(owner, task_name)
           task_obj == Task(id, task_name, "TODO")
       IN /\ tasks' = MapInsert(tasks, id, task_obj)
          /\ tasks_by_account' =
                MapInsert(tasks_by_account, owner, Append(new_task_lists(owner), id))
          /\ written_by' = MapInsert(written_by, id, owner)
    /\ logs' = <<"Insert new task " \o task_name>>
    /\ ret' = Unit
    /\ call' = [op |-> "insert_task", caller |-> owner,
                task_name |-> task_name, task_status |-> ""]
    /\ created' = [created EXCEPT ![owner] = Append(@, task_name)]
    /\ last_on' = [last_on EXCEPT ![<<owner, task_name>>] =
                        [op |-> "insert_task", task_status |-> "TODO"]]
    /\ UNCHANGED in_flight

\* Variant: update_task also pushes the id onto the caller's list, as insert_task does.
update_task_indexes(owner, task_name, task_status) ==
    /\ LET id == task_id(owner, task_name)
           task_obj == Task(id, task_name, task_status)
       IN /\ tasks' = MapInsert(tasks, id, task_obj)
          /\ tasks_by_account' =
                MapInsert(tasks_by_account, owner, Append(new_task_lists(owner), id))
          /\ written_by' = MapInsert(written_by, id, owner)
    /\ logs' = <<"Update task " \o task_name \o " to " \o task_status>>
    /\ ret' = Unit
    /\ call' = [op |-> "update_task", caller |-> owner,
                task_name |-> task_name, task_status |-> task_status]
    /\ last_on' = [last_on EXCEPT ![<<owner, task_name>>] =
                        [op |-> "update_task", task_status |-> task_status]]
    /\ UNCHANGED <<in_flight, created>>

\* Variant: update_task refuses to write when no record is stored under the id.
update_task_checked(owner, task_name, task_status) ==
    /\ task_id(owner, task_name) \in DOMAIN tasks
    /\ LET id == task_id(owner, task_name)
           task_obj == Task(id, task_name, task_status)
       IN /\ tasks' = MapInsert(tasks, id, task_obj)
          /\ written_by' = MapInsert(written_by, id, owner)
    /\ logs' = <<"Update task " \o task_name \o " to " \o task_status>>
    /\ ret' = Unit
    /\ call' = [op |-> "update_task", caller |-> owner,
                task_name |-> task_name, task_status |-> task_status]
    /\ last_on' = [last_on EXCEPT ![<<owner, task_name>>] =
                        [op |-> "update_task", task_status |-> task_status]]
    /\ UNCHANGED <<tasks_by_account, in_flight, created>>

\* pub fn update_task(&mut self, task_name: String, task_status: String)
update_task(owner, task_name, task_status) ==
    /\ LET id == task_id(owner, task_name)
           task_obj == Task(id, task_name, task_status)
       IN /\ tasks' = MapInsert(tasks, id, task_obj)
          /\ written_by' = MapInsert(written_by, id, owner)
    /\ logs' = <<"Update task " \o task_name \o " to " \o task_status>>
    /\ ret' = Unit
    /\ call' = [op |-> "update_task", caller |-> owner,
                task_name |-> task_name, task_status |-> task_status]
    /\ last_on' = [last_on EXCEPT ![<<owner, task_name>>] =
                        [op |-> "update_task", task_status |-> task_status]]
    /\ UNCHANGED <<tasks_by_account, in_flight, created>>

GetTasks == \E owner \in Owners : get_tasks(owner)
InsertTask == \E owner \in Owners, task_name \in Names : insert_task(owner, task_name)
UpdateTask ==
    \E owner \in Owners, task_name \in Names, task_status \in Statuses :
        update_task(owner, task_name, task_status)

Next == GetTasks \/ InsertTask \/ UpdateTask

Spec == Init /\ [][Next]_vars

----------------------------------------------------------------------------
(* insert_task one write at a time *)

\* Variant: the list is written before the record.
insert_task_writes_index_first == <<"tasks_by_account", "tasks">>

\* The two map writes of insert_task in program order:
\* self.tasks.insert (line 70), then self.tasks_by_account.insert (line 76).
insert_task_writes == <<"tasks", "tasks_by_account">>

\* One of insert_task's two writes, for the call of `owner` with `task_name`.
insert_task_write(w, owner, task_name) ==
    LET id == task_id(owner, task_name)
        task_obj == Task(id, task_name, "TODO")
    IN IF w = "tasks"
       THEN /\ tasks' = MapInsert(tasks, id, task_obj)
            /\ written_by' = MapInsert(written_by, id, owner)
            /\ UNCHANGED tasks_by_account
       ELSE /\ tasks_by_account' =
                  MapInsert(tasks_by_account, owner, Append(new_task_lists(owner), id))
            /\ UNCHANGED <<tasks, written_by>>

\* insert_task from its entry through its first write.
insert_task_first(owner, task_name) ==
    /\ in_flight = <<>>
    /\ Len(created[owner]) < MaxTasks
    /\ logs' = <<"Insert new task " \o task_name>>
    /\ insert_task_write(insert_task_writes[1], owner, task_name)
    /\ in_flight' = <<[owner |-> owner, task_name |-> task_name]>>
    /\ call' = [op |-> "insert_task", caller |-> owner,
                task_name |-> task_name, task_status |-> ""]
    /\ ret' = [kind |-> "running", val |-> <<>>]
    /\ created' = [created EXCEPT ![owner] = Append(@, task_name)]
    /\ last_on' = [last_on EXCEPT ![<<owner, task_name>>] =
                        [op |-> "insert_task", task_status |-> "TODO"]]

\* insert_task's second write and its return.
insert_task_second ==
    /\ in_flight # <<>>
    /\ insert_task_write(insert_task_writes[2], in_flight[1].owner, in_flight[1].task_name)
    /\ in_flight' = <<>>
    /\ logs' = <<"Insert new task " \o in_flight[1].task_name>>
    /\ call' = [op |-> "insert_task", caller |-> in_flight[1].owner,
                task_name |-> in_flight[1].task_name, task_status |-> ""]
    /\ ret' = Unit
    /\ UNCHANGED <<created, last_on>>

InsertTaskFirst ==
    \E owner \in Owners, task_name \in Names : insert_task_first(owner, task_name)

\* update_task runs between calls only; get_tasks may also read between the
\* two writes of an insert_task.
UpdateTaskBetweenCalls == in_flight = <<>> /\ UpdateTask

NextWrites == InsertTaskFirst \/ insert_task_second \/ GetTasks \/ UpdateTaskBetweenCalls

SpecWrites == Init /\ [][NextWrites]_vars

----------------------------------------------------------------------------
(* Properties *)

\* What get_tasks returns to `owner` in the current state.
list(owner) == get_tasks_ret(owner).val

\* C1 (invariant I1): every identifier in any account's list in
\* tasks_by_account is a key of tasks.
I1_IndexedIdsAreStored ==
    \A o \in DOMAIN tasks_by_account :
        \A i \in 1..Len(tasks_by_account[o]) :
            tasks_by_account[o][i] \in DOMAIN tasks

\* C1 case: an account holds a full list, another account holds a list too,
\* and the latest call was an update_task.
I1_Witness ==
    /\ call.op = "update_task"
    /\ \E o \in DOMAIN tasks_by_account : Len(tasks_by_account[o]) = MaxTasks
    /\ Cardinality(DOMAIN tasks_by_account) = Cardinality(Owners)

\* C2 (P4, owner isolation): no record that get_tasks returns to account B
\* was written by a call of another account A.
OwnerIsolation ==
    \A b \in DOMAIN tasks_by_account :
        \A i \in 1..Len(tasks_by_account[b]) :
            tasks_by_account[b][i] \in DOMAIN written_by
                => written_by[tasks_by_account[b][i]] = b

\* C3 (invariant I2): the record under key k has id = k, and k is
\* writer + "." + task_name for the record's own name and the caller that
\* wrote it.
I2_IdIsOwnerDotName ==
    \A k \in DOMAIN tasks :
        /\ tasks[k].id = k
        /\ k \in DOMAIN written_by
        /\ k = written_by[k] \o "." \o tasks[k].task_name

\* C3 case: records written by insert_task and by update_task are both
\* stored, among them the key two accounts can both produce.
I2_Witness ==
    /\ "alice.near.task_a" \in DOMAIN tasks
    /\ \E k \in DOMAIN tasks : tasks[k].task_status = "DONE"
    /\ \E k \in DOMAIN tasks : tasks[k].task_status = "TODO" /\ k \in Range(new_task_lists(written_by[k]))
    /\ written_by["alice.near.task_a"] = "alice"

\* C4 (P2, round trip): right after the first insert_task of an account,
\* get_tasks returns to it exactly one Task: id = owner + "." + name, that
\* name, status "TODO".
RoundTrip ==
    (call.op = "insert_task" /\ Len(created[call.caller]) = 1)
        => get_tasks_ret(call.caller) =
              [kind |-> "ok",
               val  |-> << [id          |-> call.caller \o "." \o call.task_name,
                            task_name   |-> call.task_name,
                            task_status |-> "TODO"] >>]

\* C4 case: alice's first insert_task, of task_a, made after the other
\* account has inserted.
RoundTrip_Witness ==
    /\ call.op = "insert_task"
    /\ Len(created[call.caller]) = 1
    /\ \E o \in Owners : o # call.caller /\ created[o] # <<>>
    /\ call.caller \o "." \o call.task_name = "alice.task_a"

\* C5 (P3, status update visible): once an account has inserted name n and
\* its last mutating call on n is update_task(n, s), every entry of its list
\* with id owner + "." + n shows status s and name n.
StatusUpdateVisible ==
    \A p \in Pairs :
        (p[2] \in Range(created[p[1]]) /\ last_on[p].op = "update_task")
            => \A i \in 1..Len(list(p[1])) :
                  list(p[1])[i].id = p[1] \o "." \o p[2]
                      => /\ list(p[1])[i].task_status = last_on[p].task_status
                         /\ list(p[1])[i].task_name = p[2]

\* C6 (P5, order preservation): get_tasks returns one Task per identifier of
\* the caller's list, in list order, the i-th Task carrying the i-th
\* identifier; that order is the order of the caller's insert_task calls.
OrderPreserved ==
    \A o \in Owners :
        /\ get_tasks_ret(o).kind = "ok"
        /\ Len(list(o)) = Len(new_task_lists(o))
        /\ Len(list(o)) = Len(created[o])
        /\ \A i \in 1..Len(list(o)) :
              /\ list(o)[i].id = new_task_lists(o)[i]
              /\ list(o)[i].id = o \o "." \o created[o][i]

\* C6 case: an account inserted task_a and then near.task_a.
OrderPreserved_Witness ==
    \E o \in Owners :
        /\ created[o] = <<"task_a", "near.task_a">>
        /\ Len(list(o)) = 2

\* C7 (P1, empty by default): get_tasks returns the empty sequence to every
\* account that never called insert_task, whatever it did with update_task
\* and whatever other accounts did.
EmptyByDefault ==
    \A o \in Owners :
        created[o] = <<>> => get_tasks_ret(o) = [kind |-> "ok", val |-> <<>>]

\* C7 case: alice never inserted but called update_task on a name whose id
\* alice.near holds in its list.
EmptyByDefault_Witness ==
    /\ created["alice"] = <<>>
    /\ last_on[<<"alice", "near.task_a">>].op = "update_task"
    /\ "alice.near.task_a" \in Range(new_task_lists("alice.near"))

\* C8 (identifier uniqueness): two distinct (owner, name) pairs that calls
\* have used never produce the same key of tasks.
IdentifierUnique ==
    \A p, q \in Pairs :
        (p # q /\ last_on[p].op # "none" /\ last_on[q].op # "none")
            => task_id(p[1], p[2]) # task_id(q[1], q[2])

\* C9 (id and name immutable): a record stored under k stays stored under k
\* with the same id and the same task_name in every later state.
IdAndNameImmutable ==
    [][\A k \in DOMAIN tasks :
          /\ k \in DOMAIN tasks'
          /\ tasks'[k].id = tasks[k].id
          /\ tasks'[k].task_name = tasks[k].task_name]_vars

\* C10 (append-only index): in every step, for every account that has a
\* list, the list before the step is a prefix of the list after it.
IndexAppendOnly ==
    [][\A o \in DOMAIN tasks_by_account :
          /\ o \in DOMAIN tasks_by_account'
          /\ Len(tasks_by_account[o]) <= Len(tasks_by_account'[o])
          /\ SubSeq(tasks_by_account'[o], 1, Len(tasks_by_account[o]))
                = tasks_by_account[o]]_vars

\* C10 case: an insert_task has just pushed onto a list that already held
\* an identifier, while another account's list exists.
IndexAppendOnly_Witness ==
    /\ call.op = "insert_task"
    /\ Len(new_task_lists(call.caller)) = 2
    /\ \E o \in DOMAIN tasks_by_account : o # call.caller

\* C11 (create returns the created Task): an insert_task call returns
\* Task {id: owner + "." + name, name, "TODO"} to its caller.
CreateReturnsTask ==
    call.op = "insert_task"
        => /\ ret.kind = "task"
           /\ ret.val = << [id          |-> call.caller \o "." \o call.task_name,
                            task_name   |-> call.task_name,
                            task_status |-> "TODO"] >>

\* Number of positions of sequence s that hold x.
Occurrences(s, x) == Cardinality({i \in 1..Len(s) : s[i] = x})

\* C12 (repeated create): however often an account has called insert_task
\* with one name, tasks holds one record under owner + "." + name, the
\* account's list holds that identifier once per call, and get_tasks returns
\* that stored record once per call.
RepeatedCreate ==
    \A p \in Pairs :
        Occurrences(created[p[1]], p[2]) >= 1
            => /\ (p[1] \o "." \o p[2]) \in DOMAIN tasks
               /\ Occurrences(new_task_lists(p[1]), p[1] \o "." \o p[2])
                     = Occurrences(created[p[1]], p[2])
               /\ Occurrences(list(p[1]), tasks[p[1] \o "." \o p[2]])
                     = Occurrences(created[p[1]], p[2])
               /\ \A i \in 1..Len(list(p[1])) :
                     list(p[1])[i].id = p[1] \o "." \o p[2]
                         => list(p[1])[i] = tasks[p[1] \o "." \o p[2]]

\* C12 case: an account has just called insert_task a second time with the
\* same name.
RepeatedCreate_Witness ==
    /\ call.op = "insert_task"
    /\ created[call.caller] = <<call.task_name, call.task_name>>
    /\ Len(list(call.caller)) = 2
    /\ list(call.caller)[1] = list(call.caller)[2]

\* C13 (orphan record): while an account has never called insert_task with
\* name n but has called update_task on n, tasks holds a record under
\* owner + "." + n, and as long as that record is the one this account
\* wrote, get_tasks returns it to no caller.
OrphanNotListed ==
    \A p \in Pairs :
        (p[2] \notin Range(created[p[1]]) /\ last_on[p].op = "update_task")
            => /\ (p[1] \o "." \o p[2]) \in DOMAIN tasks
               /\ written_by[p[1] \o "." \o p[2]] = p[1]
                     => \A b \in Owners : \A i \in 1..Len(list(b)) :
                           list(b)[i].id # p[1] \o "." \o p[2]

\* C14 (frame of changeStatus): an update_task step leaves tasks_by_account
\* as it was, and leaves every entry of tasks as it was except the one under
\* caller + "." + task_name; no other key appears.
UpdateFrame ==
    [][call'.op = "update_task"
          => /\ tasks_by_account' = tasks_by_account
             /\ DOMAIN tasks' = DOMAIN tasks \cup {call'.caller \o "." \o call'.task_name}
             /\ \A k \in DOMAIN tasks :
                   k # call'.caller \o "." \o call'.task_name
                       => tasks'[k] = tasks[k]]_vars

\* C14 case: an update_task has just run while both accounts hold lists and
\* tasks holds other records besides the updated one.
UpdateFrame_Witness ==
    /\ call.op = "update_task"
    /\ DOMAIN tasks_by_account = Owners
    /\ Cardinality(DOMAIN tasks) >= 3
    /\ tasks[call.caller \o "." \o call.task_name].task_status = "DONE"

\* C15 (no precondition, no transition graph): in every state update_task
\* can be called by every caller with every name and status; once it has
\* run it has returned normally and the record under caller + "." + name
\* carries exactly the supplied name and status.
UpdateAlwaysSucceeds ==
    /\ \A o \in Owners, n \in Names, st \in Statuses : ENABLED update_task(o, n, st)
    /\ call.op = "update_task"
          => /\ ret = [kind |-> "unit", val |-> <<>>]
             /\ (call.caller \o "." \o call.task_name) \in DOMAIN tasks
             /\ tasks[call.caller \o "." \o call.task_name] =
                   [id          |-> call.caller \o "." \o call.task_name,
                    task_name   |-> call.task_name,
                    task_status |-> call.task_status]

\* C15 case: an update_task has just set "TODO" on a name its caller never
\* inserted, while that caller's list is full.
UpdateAlwaysSucceeds_Witness ==
    /\ call.op = "update_task"
    /\ call.task_status = "TODO"
    /\ call.task_name \notin Range(created[call.caller])
    /\ Len(created[call.caller]) = MaxTasks

\* C16 (get_tasks never aborts): in every state get_tasks completes normally
\* for every caller, and every get_tasks call made has returned a list.
GetTasksNeverPanics ==
    /\ \A o \in Owners : get_tasks_ret(o).kind = "ok"
    /\ call.op = "get_tasks" => ret.kind = "ok"

\* C16 case: get_tasks has just returned a full list whose records were
\* last written by update_task calls of two different accounts.
GetTasksNeverPanics_Witness ==
    /\ call.op = "get_tasks"
    /\ ret.kind = "ok"
    /\ Len(ret.val) = MaxTasks
    /\ \E i, j \in 1..Len(ret.val) :
          /\ written_by[ret.val[i].id] # written_by[ret.val[j].id]
          /\ ret.val[i].task_status = "DONE"

\* C18 (index length counts creates): for every account, the length of its
\* list, and of what get_tasks returns to it, is the number of insert_task
\* calls it has made; it has an entry in tasks_by_account exactly when that
\* number is at least one, and no entry is empty.
IndexLengthCountsCreates ==
    \A o \in Owners :
        /\ Len(new_task_lists(o)) = Len(created[o])
        /\ Len(list(o)) = Len(created[o])
        /\ (o \in DOMAIN tasks_by_account) <=> (Len(created[o]) >= 1)
        /\ o \in DOMAIN tasks_by_account => tasks_by_account[o] # <<>>

\* C18 case: one account has made all its insert_task calls, the other none
\* but has called update_task.
IndexLengthCountsCreates_Witness ==
    /\ Len(created["alice"]) = MaxTasks
    /\ Len(tasks_by_account["alice"]) = MaxTasks
    /\ created["alice.near"] = <<>>
    /\ "alice.near" \notin DOMAIN tasks_by_account
    /\ \E n \in Names : last_on[<<"alice.near", n>>].op = "update_task"

\* C19 (create resets status): an insert_task step on a name whose key
\* already holds a record, whatever its status, leaves that record with
\* status "TODO", and every entry of the caller's list with that id then
\* shows "TODO".
CreateResetsStatus ==
    [][\A o \in Owners, n \in Names :
          (created' # created /\ call'.caller = o /\ call'.task_name = n
             /\ (o \o "." \o n) \in DOMAIN tasks)
          => /\ tasks'[o \o "." \o n].task_status = "TODO"
             /\ get_tasks_ret(o)'.kind = "ok"
             /\ \A i \in 1..Len(list(o)') :
                   list(o)'[i].id = o \o "." \o n
                       => list(o)'[i].task_status = "TODO"]_vars

\* C19 case: an account has just inserted a name for the second time, so a
\* record was already stored under the id; both list entries show "TODO".
CreateResetsStatus_Witness ==
    /\ call.op = "insert_task"
    /\ Len(created[call.caller]) = 2
    /\ created[call.caller][1] = call.task_name
    /\ created[call.caller][2] = call.task_name
    /\ tasks[call.caller \o "." \o call.task_name].task_status = "TODO"
    /\ \A i \in 1..2 : list(call.caller)[i].task_status = "TODO"

\* C17 (write ordering inside create): between insert_task's two writes the
\* record is already stored while its id is not yet pushed, every id in any
\* list is a key of tasks, and get_tasks completes normally for every
\* reader admitted at that point.
I1_BetweenWrites ==
    in_flight # <<>>
        => /\ (in_flight[1].owner \o "." \o in_flight[1].task_name) \in DOMAIN tasks
           /\ Len(new_task_lists(in_flight[1].owner)) + 1 = Len(created[in_flight[1].owner])
           /\ \A o \in DOMAIN tasks_by_account :
                 \A i \in 1..Len(tasks_by_account[o]) :
                     tasks_by_account[o][i] \in DOMAIN tasks
           /\ \A o \in Owners : get_tasks_ret(o).kind = "ok"
           /\ call.op = "get_tasks" => ret.kind = "ok"

\* C17 case: while an account's first insert_task is between its two
\* writes, that account reads: the record is stored and the list returned
\* is still empty.
I1_BetweenWrites_Witness ==
    /\ in_flight # <<>>
    /\ call.op = "get_tasks"
    /\ call.caller = in_flight[1].owner
    /\ ret = [kind |-> "ok", val |-> <<>>]
    /\ (in_flight[1].owner \o "." \o in_flight[1].task_name) \in DOMAIN tasks
    /\ \E o \in DOMAIN tasks_by_account : Len(tasks_by_account[o]) = MaxTasks

====
